---- MODULE Spec2Model ----
(***************************************************************************)
(* Model of tokio-util's service module (src/src/service.rs): `spawn`      *)
(* moves a Service into a worker task fed by an unbounded mpsc queue of    *)
(* Call records; `Handle::call` pushes a Call {req, tx} and returns a      *)
(* future that waits on the oneshot reply slot.                            *)
(***************************************************************************)
EXTENDS Integers, Sequences, FiniteSets, TLC

\* ------------------------------------------------------------------ bounds
MaxCalls == 2
MaxHandles == 2

\* ------------------------------------------------------------------ values
\* Option<V> of the example map: None, or Some("world").
None == 0
World == 1
\* No response (an empty reply slot, a future that produced no value).
NoRsp == 0 - 1

Get == [op |-> "Get", val |-> None]
Set(v) == [op |-> "Set", val |-> v]
Del == [op |-> "Del", val |-> None]
Inc == [op |-> "Inc", val |-> None]
NoReq == [op |-> "none", val |-> None]

\* The requests of the module's example, in the order it issues them.
DocRequests == <<Set(World), Get, Del, Get>>

\* What the n-th Handle::call of a client may carry:
\*   "doc"      the example's requests, in the example's order
\*   "kv"       any operation of the example's Op enum
\*   "counter"  increments of a counter service
ReqsFor(k, n) ==
    CASE k = "doc" -> {DocRequests[((n - 1) % Len(DocRequests)) + 1]}
      [] k = "kv" -> {Set(World), Get, Del}
      [] OTHER -> {Inc}

VARIABLES
    kind,       \* the client and service under study, see ReqsFor
    original,   \* the Handle returned by spawn is alive
    clones,     \* number of live clones of it
    queue,      \* the mpsc queue: call ids of the Call records in it
    worker,     \* the task running rx.map(serve).for_each: "running", "exited" (end of stream), "dead" (task destroyed)
    service,    \* the state captured by the service closure: the map's entry for the key, or the counter
    calls,      \* one record per Handle::call invocation, see NewCall
    invoked     \* history: call ids in the order service.call was entered

vars == <<kind, original, clones, queue, worker, service, calls, invoked>>

CallIds == 1 .. Len(calls)

\* Owners of the queue's sending half (`inner` of every live Handle).
Senders == (IF original THEN 1 ELSE 0) + clones

\* ------------------------------------------------------------------ Error<T>
Pending == [tag |-> "Pending", rsp |-> NoRsp, req |-> NoReq]
Response(rsp) == [tag |-> "Ok", rsp |-> rsp, req |-> NoReq]
SendError(req) == [tag |-> "SendError", rsp |-> NoRsp, req |-> req]
Canceled == [tag |-> "Canceled", rsp |-> NoRsp, req |-> NoReq]

\* Mutant: the returned Call is discarded.
FromSendErrorLosesReq(call) == SendError(NoReq)

\* From<mpsc::SendError<Call>>: the error hands the Call back; its req is kept.
FromSendError(call) == SendError(call.req)

\* From<oneshot::Canceled>
FromCanceled == Canceled

\* ------------------------------------------------------------------ the service closures
\* The example's closure over a HashMap (one key): <<new state, response>>.
KvHandler(state, req) ==
    CASE req.op = "Get" -> <<state, state>>
      [] req.op = "Set" -> <<req.val, state>>
      [] OTHER -> <<None, state>>

\* A closure over a counter: increments it and answers the new value.
CounterHandler(state, req) == <<state + 1, state + 1>>

\* Service::call for FnMut(Req) -> T: (self)(req).into_future()
ServiceCall(state, req) ==
    IF req.op = "Inc" THEN CounterHandler(state, req) ELSE KvHandler(state, req)

\* ------------------------------------------------------------------ Call and its reply slot
\* Handle::call: oneshot::channel(), Call { req, tx }, unbounded_send.  The
\* record follows one invocation:
\*   req, via the request, and whether it went through the original Handle
\*            or through a clone
\*   stage    where the Call and its tx are: "unsent" (unbounded_send failed,
\*            the Call sits in the SendError), "queued", "calling" (inside
\*            service.call), "inflight" (the spawned `work` task holds the
\*            service future and tx), "sent" (tx.send was called), "dropped"
\*            (tx was dropped without a send)
\*   fut      the result the service future completes with
\*   data     the value stored in the oneshot slot, NoRsp when empty
\*   chain    the state of the returned and_then future: "First", "Second",
\*            "Done", "Dropped"
\*   out      what the returned future resolved with; nres counts resolutions
NoFut == [res |-> "none", rsp |-> NoRsp]

NewCall(req, via, delivered) ==
    [req |-> req, via |-> via,
     stage |-> IF delivered THEN "queued" ELSE "unsent",
     fut |-> NoFut, data |-> NoRsp,
     chain |-> "First", out |-> Pending, nres |-> 0]

\* Mutant: a push never notices that the receiver is gone.
RxOpenAlways == TRUE

\* The receiving half of the request queue lives inside the worker task.
RxOpen == worker = "running"

\* Mutant: the push is put off and never made.
UnboundedSendDeferred(q, id) == q

\* Mutant: a push that replaces what is queued.
UnboundedSendOverwrite(q, id) == <<id>>

\* Mutant: a push at the head of the queue.
UnboundedSendFront(q, id) == <<id>> \o q

\* UnboundedSender::unbounded_send: one atomic push at the tail.
UnboundedSend(q, id) == Append(q, id)

\* Mutant: the receiver yields the newest message.
NextMessageNewest(q) == q[Len(q)]

\* Stream::poll of the receiver: the oldest message.
NextMessage(q) == Head(q)

\* Mutant: the received message is left in the queue.
RemainingKeeps(q, c) == q

\* The queue once message c was taken out of it.
Remaining(q, c) == SelectSeq(q, LAMBDA x : x # c)

\* Mutant: the stream ends as soon as no sender is left.
EndOfStreamUndrained(q, senders) == senders = 0

\* Mutant: the stream never ends.
EndOfStreamNever(q, senders) == FALSE

\* Mutant: the stream ends when the Handle spawn returned is dropped.
EndOfStreamOriginalGone(q, senders) == q = <<>> /\ ~original

\* Mutant: the stream ends whenever the queue is empty.
EndOfStreamIdle(q, senders) == q = <<>>

\* Stream::poll yields None: no sender is left and the queue is drained.
EndOfStream(q, senders) == q = <<>> /\ senders = 0

\* oneshot::Receiver is alive while the returned future holds it.
RxAlive(call) == call.chain \in {"First", "Second"}

\* oneshot::Sender has been consumed or dropped.
TxComplete(call) == call.stage \in {"sent", "dropped"}

\* rx.map(serve).for_each(..) is one task: it is inside serve for at most
\* the call it just received.
Calling == {c \in CallIds : calls[c].stage = "calling"}

\* Mutant: the worker awaits each service future before its next receive.
WorkerBusyUntilDone ==
    \E c \in CallIds : calls[c].stage \in {"calling", "inflight"}

\* Mutant: every received call is served at once, whatever is being served.
WorkerNeverBusy == FALSE

WorkerBusy == Calling # {}

\* Mutant: the Calls of a destroyed worker task are leaked, tx included.
DropWorkerSideLeaks(call) == call

\* Dropping the worker task drops the receiver with the queued Calls, the
\* Call being served and the service.
DropWorkerSide(call) ==
    IF call.stage \in {"queued", "calling"} THEN [call EXCEPT !.stage = "dropped"] ELSE call

\* Dropping a spawned `work` task drops the service future and tx.
DropWorkTask(call) ==
    IF call.stage = "inflight" THEN [call EXCEPT !.stage = "dropped"] ELSE call

\* ------------------------------------------------------------------ Handle
HandleAlive(via) == IF via = "original" THEN original ELSE clones > 0

Clone ==
    /\ Senders > 0
    /\ Senders < MaxHandles
    /\ clones' = clones + 1
    /\ UNCHANGED <<kind, original, queue, worker, service, calls, invoked>>

\* Mutant: dropping the Handle cancels the calls it pushed that still wait.
DropOriginalCancels ==
    /\ original
    /\ original' = FALSE
    /\ queue' = SelectSeq(queue, LAMBDA c : calls[c].via # "original")
    /\ calls' = [c \in CallIds |->
                    IF calls[c].via = "original" /\ calls[c].stage = "queued"
                    THEN [calls[c] EXCEPT !.stage = "dropped"] ELSE calls[c]]
    /\ UNCHANGED <<kind, clones, worker, service, invoked>>

DropOriginal ==
    /\ original
    /\ original' = FALSE
    /\ UNCHANGED <<kind, clones, queue, worker, service, calls, invoked>>

DropClone ==
    /\ clones > 0
    /\ clones' = clones - 1
    /\ UNCHANGED <<kind, original, queue, worker, service, calls, invoked>>

Call(via, req) ==
    /\ HandleAlive(via)
    /\ Len(calls) < MaxCalls
    /\ req \in ReqsFor(kind, Len(calls) + 1)
    /\ calls' = Append(calls, NewCall(req, via, RxOpen))
    /\ queue' = IF RxOpen THEN UnboundedSend(queue, Len(calls) + 1) ELSE queue
    /\ UNCHANGED <<kind, original, clones, worker, service, invoked>>

\* ------------------------------------------------------------------ the returned future
\* Mutant: the chain keeps polling rx after it produced a result.
ChainKeepsSecond == "Second"

\* What the chain becomes once it has produced a result.
ChainResolved == "Done"

\* Ready: the result leaves the future (and the slot, if it came from there).
Resolve(call, outcome) ==
    [call EXCEPT !.chain = ChainResolved, !.out = outcome, !.nres = @ + 1,
                 !.data = NoRsp]

\* Future::poll of the and_then chain: the send result first, then rx.
PollCall(call) ==
    IF call.chain = "First" /\ call.stage = "unsent"
    THEN Resolve(call, FromSendError(call))
    ELSE IF call.data # NoRsp
    THEN Resolve(call, Response(call.data))
    ELSE IF TxComplete(call)
    THEN Resolve(call, FromCanceled)
    ELSE [call EXCEPT !.chain = "Second"]

Poll(c) ==
    /\ c \in CallIds
    /\ calls[c].chain \in {"First", "Second"}
    /\ calls' = [calls EXCEPT ![c] = PollCall(calls[c])]
    /\ UNCHANGED <<kind, original, clones, queue, worker, service, invoked>>

\* Polling the and_then future after it resolved panics in the caller
\* ("cannot poll a chain twice"): it yields no second result.
PollDone(c) ==
    /\ c \in CallIds
    /\ calls[c].chain = "Done"
    /\ UNCHANGED vars

\* The caller drops the returned future, and rx with it.
DropFuture(c) ==
    /\ c \in CallIds
    /\ calls[c].chain \in {"First", "Second"}
    /\ calls' = [calls EXCEPT ![c].chain = "Dropped", ![c].data = NoRsp]
    /\ UNCHANGED <<kind, original, clones, queue, worker, service, invoked>>

\* ------------------------------------------------------------------ the worker task
\* rx yields Some(call): serve(call) enters service.call(req).
WorkerRecv ==
    /\ worker = "running"
    /\ ~WorkerBusy
    /\ queue # <<>>
    /\ LET c == NextMessage(queue) IN
        /\ queue' = Remaining(queue, c)
        /\ calls' = [calls EXCEPT ![c].stage = "calling"]
        /\ invoked' = Append(invoked, c)
    /\ UNCHANGED <<kind, original, clones, worker, service>>

\* rx yields None: no sender is left and the queue is drained.
WorkerExit ==
    /\ worker = "running"
    /\ ~WorkerBusy
    /\ EndOfStream(queue, Senders)
    /\ worker' = "exited"
    /\ UNCHANGED <<kind, original, clones, queue, service, calls, invoked>>

\* Mutant: a call whose caller gave up is not run by the service.
ServiceOkSkipsDropped(c) ==
    /\ c \in Calling
    /\ LET r == ServiceCall(service, calls[c].req) IN
        /\ service' = IF calls[c].chain = "Dropped" THEN service ELSE r[1]
        /\ calls' = [calls EXCEPT ![c].stage = "inflight",
                                  ![c].fut = [res |-> "ok", rsp |-> r[2]]]
    /\ UNCHANGED <<kind, original, clones, queue, worker, invoked>>

\* service.call(req) returns a future completing with Ok(rsp); `work` is spawned.
ServiceOk(c) ==
    /\ c \in Calling
    /\ LET r == ServiceCall(service, calls[c].req) IN
        /\ service' = r[1]
        /\ calls' = [calls EXCEPT ![c].stage = "inflight",
                                  ![c].fut = [res |-> "ok", rsp |-> r[2]]]
    /\ UNCHANGED <<kind, original, clones, queue, worker, invoked>>

\* Mutant: a failing call ends the worker's for_each, as a stream error would.
ServiceErrEndsWorker(c) ==
    /\ c \in Calling
    /\ worker' = "dead"
    /\ queue' = <<>>
    /\ calls' = [i \in CallIds |->
                    IF i = c THEN [calls[i] EXCEPT !.stage = "inflight",
                                                   !.fut = [res |-> "err", rsp |-> NoRsp]]
                    ELSE DropWorkerSide(calls[i])]
    /\ UNCHANGED <<kind, original, clones, service, invoked>>

\* service.call(req) returns a future completing with Err(()); `work` is spawned.
ServiceErr(c) ==
    /\ c \in Calling
    /\ calls' = [calls EXCEPT ![c].stage = "inflight",
                              ![c].fut = [res |-> "err", rsp |-> NoRsp]]
    /\ UNCHANGED <<kind, original, clones, queue, worker, service, invoked>>

\* service.call(req) panics: the executor drops the worker task.
ServicePanic(c) ==
    /\ c \in Calling
    /\ worker' = "dead"
    /\ queue' = <<>>
    /\ calls' = [i \in CallIds |-> DropWorkerSide(calls[i])]
    /\ UNCHANGED <<kind, original, clones, service, invoked>>

\* oneshot::Sender::send: stores the value unless the receiver is gone.
SendRsp(call, rsp) ==
    [call EXCEPT !.stage = "sent",
                 !.data = IF RxAlive(call) THEN rsp ELSE NoRsp]

\* Mutant: every response is the one of the call served last.
WorkDoneLatestRsp(call) ==
    IF call.fut.res = "ok" THEN SendRsp(call, calls[invoked[Len(invoked)]].fut.rsp)
    ELSE [call EXCEPT !.stage = "dropped"]

\* Mutant: a failed service future is answered with a default response.
WorkDoneFabricates(call) ==
    SendRsp(call, IF call.fut.res = "ok" THEN call.fut.rsp ELSE None)

\* The spawned `work` task: the service future completes; on Ok the and_then
\* closure runs `let _ = tx.send(rsp)`, on Err tx is dropped.
WorkDone(call) ==
    IF call.fut.res = "ok" THEN SendRsp(call, call.fut.rsp)
    ELSE [call EXCEPT !.stage = "dropped"]

Work(c) ==
    /\ c \in CallIds
    /\ calls[c].stage = "inflight"
    /\ calls' = [calls EXCEPT ![c] = WorkDone(calls[c])]
    /\ UNCHANGED <<kind, original, clones, queue, worker, service, invoked>>

\* The executor is shut down: the worker task and every `work` task are dropped.
Shutdown ==
    /\ worker = "running" \/ \E c \in CallIds : calls[c].stage = "inflight"
    /\ worker' = IF worker = "running" THEN "dead" ELSE worker
    /\ queue' = <<>>
    /\ calls' = [i \in CallIds |->
                    DropWorkTask(IF worker = "running" THEN DropWorkerSide(calls[i])
                                 ELSE calls[i])]
    /\ UNCHANGED <<kind, original, clones, service, invoked>>

\* ------------------------------------------------------------------ specifications
\* The state right after spawn(service) returned its Handle.
Spawned ==
    /\ original = TRUE
    /\ clones = 0
    /\ queue = <<>>
    /\ worker = "running"
    /\ service = None
    /\ calls = <<>>
    /\ invoked = <<>>

Init == kind = "doc" /\ Spawned
InitKv == kind = "kv" /\ Spawned
InitCounter == kind = "counter" /\ Spawned

Client ==
    \/ DropOriginal
    \/ \E via \in {"original", "clone"}, req \in {Set(World), Get, Del, Inc} : Call(via, req)
    \/ \E c \in CallIds : Poll(c)
    \/ \E c \in CallIds : PollDone(c)
    \/ \E c \in CallIds : DropFuture(c)

Executor ==
    \/ WorkerRecv
    \/ WorkerExit
    \/ \E c \in CallIds : ServiceOk(c)
    \/ \E c \in CallIds : ServiceErr(c)
    \/ \E c \in CallIds : ServicePanic(c)
    \/ \E c \in CallIds : Work(c)
    \/ Shutdown

Next == Clone \/ DropClone \/ Client \/ Executor

\* A client that keeps to the Handle spawn returned.
NextOneHandle == Client \/ Executor

\* The example's client and service, with clones.
Spec == Init /\ [][Next]_vars

\* The executor keeps driving the tasks it was given: the worker task takes
\* its next step, a service.call that was entered returns (or panics), and a
\* service future in flight completes.
ServiceReturns == \E c \in CallIds : ServiceOk(c) \/ ServiceErr(c) \/ ServicePanic(c)

WorkCompletes == \E c \in CallIds : Work(c)

Fairness ==
    /\ WF_vars(WorkerRecv)
    /\ WF_vars(WorkerExit)
    /\ WF_vars(ServiceReturns)
    /\ WF_vars(WorkCompletes)

LiveSpec == Spec /\ Fairness

\* A caller that holds a call's future is woken when the reply slot is
\* filled or closed, and polls it.
PollFairness == \A c \in 1 .. MaxCalls : WF_vars(Poll(c))

\* The calls made through the Handle returned by spawn, on a fair executor
\* and with callers that poll the futures they hold.
LiveCallSpec == Init /\ [][NextOneHandle]_vars /\ Fairness /\ PollFairness

\* Any sequence of map operations through one Handle.
SpecKv == InitKv /\ [][NextOneHandle]_vars

\* A counter service called through clones.
SpecCounter == InitCounter /\ [][Next]_vars

\* ------------------------------------------------------------------ properties
\* The calls that were enqueued, in the order of their pushes.
Enqueued == SelectSeq([i \in CallIds |-> i], LAMBDA c : calls[c].stage # "unsent")

Range(q) == {q[i] : i \in 1 .. Len(q)}

NoFutureFailed == \A c \in CallIds : calls[c].fut.res # "err"

RECURSIVE SequentialRsp(_, _, _)
SequentialRsp(state, ids, c) ==
    LET r == ServiceCall(state, calls[Head(ids)].req) IN
    IF Head(ids) = c THEN r[2] ELSE SequentialRsp(r[1], Tail(ids), c)

\* C2: while no service future has failed, every response a call resolved
\* with is the response of the sequential run of the enqueued requests.
C2_Integrity ==
    NoFutureFailed =>
        \A c \in CallIds :
            calls[c].out.tag = "Ok" => calls[c].out.rsp = SequentialRsp(None, Enqueued, c)

\* Set then Get, both answered: Get sees the value Set stored.
C2_Witness ==
    /\ Len(calls) = 2
    /\ calls[1].req = Set(World) /\ calls[1].out = Response(None)
    /\ calls[2].req = Get /\ calls[2].out = Response(World)

\* The service state after the given calls ran one after the other.
RECURSIVE SequentialState(_, _)
SequentialState(state, ids) ==
    IF ids = <<>> THEN state
    ELSE SequentialState(ServiceCall(state, calls[Head(ids)].req)[1], Tail(ids))

\* C3: service.call is entered in the order of the pushes: the calls
\* invoked so far are the first of the enqueued ones, in that order, and the
\* service state is the one their sequential run in that order leaves.
C3_Fifo ==
    /\ Len(invoked) <= Len(Enqueued)
    /\ invoked = SubSeq(Enqueued, 1, Len(invoked))
    /\ service = SequentialState(None, SelectSeq(Enqueued, LAMBDA c : calls[c].fut.res = "ok"))

\* Two calls pushed through different Handles, both invoked.
C3_Witness ==
    /\ Len(invoked) = 2
    /\ calls[invoked[1]].via # calls[invoked[2]].via

\* C4: at most one invocation of service.call is executing.
C4_SingleInvocation == Cardinality(Calling) <= 1

\* service.call is executing while the future of an earlier call is in flight.
C4_Witness ==
    /\ Calling # {}
    /\ \E c \in CallIds : calls[c].stage = "inflight"

\* C5: once the worker has served every pushed call of a counter service
\* whose futures do not fail, the counter equals the number of calls pushed
\* through all the Handles.
C5_NoLostUpdate ==
    (worker # "dead" /\ queue = <<>> /\ Calling = {} /\ NoFutureFailed)
        => service = Len(Enqueued)

\* Two Handles, one call through each, both served.
C5_Witness ==
    /\ worker = "running" /\ queue = <<>> /\ Calling = {} /\ NoFutureFailed
    /\ Len(calls) = 2 /\ calls[1].via # calls[2].via
    /\ original /\ clones > 0
    /\ service = 2

\* C6: a call whose push failed resolves with nothing but SendError carrying
\* its own request, and the service is never invoked with it; no other call
\* resolves with SendError.
C6_SendErrorReturnsReq ==
    \A c \in CallIds :
        /\ calls[c].stage = "unsent" =>
            /\ c \notin Range(invoked)
            /\ calls[c].fut = NoFut
            /\ calls[c].out \in {Pending, SendError(calls[c].req)}
        /\ calls[c].out.tag = "SendError" => calls[c].stage = "unsent"

\* The second call is made after the worker died serving the first, and
\* gets its own request back.
C6_Witness ==
    /\ Len(calls) = 2
    /\ invoked = <<1>>
    /\ calls[2].req # calls[1].req
    /\ calls[2].out = SendError(calls[2].req)

\* C7: a call whose service future failed never holds or resolves with a
\* response: its future is unresolved or resolved with Canceled.
C7_FailureCancels ==
    \A c \in CallIds :
        calls[c].fut.res = "err" =>
            /\ calls[c].data = NoRsp
            /\ calls[c].out \in {Pending, Canceled}

\* A call whose service future failed has resolved with Canceled.
C7_Witness ==
    \E c \in CallIds : calls[c].fut.res = "err" /\ calls[c].out = Canceled

\* C8: a call made after the worker terminated is never queued: it does not
\* wait on its reply slot (the chain never reaches its second stage), and
\* its first poll resolves it with SendError.
C8_SynchronousDetection ==
    /\ worker # "running" => \A c \in CallIds : calls[c].stage \notin {"queued", "calling"}
    /\ \A c \in CallIds :
        calls[c].stage = "unsent" =>
            /\ calls[c].chain # "Second"
            /\ calls[c].chain = "First" => PollCall(calls[c]).out.tag = "SendError"
            /\ calls[c].chain = "Done" => calls[c].out.tag = "SendError"

\* The executor shut down before the first call was made; its single poll
\* resolved it.
C8_Witness ==
    /\ worker = "dead"
    /\ invoked = <<>>
    /\ \E c \in CallIds : calls[c].stage = "unsent" /\ calls[c].out.tag = "SendError"

\* C9: once no Handle is left and the queue is empty the worker task ends,
\* and a worker that has ended never runs again.
C9_WorkerTerminates ==
    /\ (Senders = 0 /\ queue = <<>>) ~> (worker # "running")
    /\ [][worker # "running" => worker' = worker]_vars

\* The worker saw the end of the stream after serving a call.
C9_Witness ==
    /\ worker = "exited"
    /\ Senders = 0
    /\ invoked # <<>>

\* C10 as stated: after the worker's exit every reply slot whose response
\* was not delivered has been dropped.
C10_ExitDropsSlots ==
    worker = "exited" => \A c \in CallIds : calls[c].stage \in {"sent", "dropped"}

\* C10, amended: the worker exits only when no Handle is left, the queue is
\* drained and no call is being served, and its exit drops no reply slot:
\* the calls are exactly as before, those in flight still own their slots.
C10_ExitKeepsSlots ==
    [][(worker = "running" /\ worker' = "exited") =>
            /\ Senders = 0 /\ queue = <<>> /\ Calling = {}
            /\ calls' = calls
            /\ \A c \in CallIds : calls[c].stage \in {"inflight", "sent", "dropped"}]_vars

\* The worker has exited while a call is in flight: its completion task
\* still holds the slot and the response to send, its caller still waits.
C10_Witness ==
    /\ worker = "exited"
    /\ \E c \in CallIds :
        calls[c].stage = "inflight" /\ calls[c].fut.res = "ok" /\ RxAlive(calls[c])

\* The calls whose service future completed with Ok, in enqueue order.
Served == SelectSeq(Enqueued, LAMBDA c : calls[c].fut.res = "ok")

\* C11: a call pushed through a Handle that has since been dropped is not
\* cancelled by the drop: it stays queued until the worker serves it (its tx
\* is dropped without a service call only when the worker task is destroyed,
\* and the worker does not exit before serving it), and once its service
\* future succeeded and its response was sent, it resolves with that response.
C11_DropKeepsCalls ==
    \A c \in CallIds :
        (~HandleAlive(calls[c].via) /\ calls[c].stage # "unsent") =>
            /\ calls[c].stage = "queued" => (c \in Range(queue) /\ worker = "running")
            /\ (calls[c].stage = "dropped" /\ calls[c].fut = NoFut) => worker = "dead"
            /\ worker = "exited" => c \in Range(invoked)
            /\ (calls[c].stage = "sent" /\ calls[c].chain = "Done")
                    => calls[c].out = Response(calls[c].fut.rsp)

\* The Handle spawn returned was dropped while a call pushed through it
\* still waits in the queue of the running worker.
C11_Witness ==
    /\ ~original
    /\ worker = "running"
    /\ \E c \in CallIds : calls[c].via = "original" /\ calls[c].stage = "queued"

\* C12: the worker does not exit while a clone exists, calls through a clone
\* are pushed whether or not the original Handle is alive (a push fails only
\* once the worker task was destroyed), and they are answered by the one
\* service instance: their responses are those of the sequential run of all
\* the pushed requests.
C12_CloneIndependence ==
    /\ worker = "exited" => Senders = 0
    /\ \A c \in CallIds :
        calls[c].via = "clone" =>
            /\ calls[c].stage = "unsent" => worker = "dead"
            /\ (NoFutureFailed /\ calls[c].out.tag = "Ok")
                    => calls[c].out.rsp = SequentialRsp(None, Enqueued, c)

\* The original stored the value and was dropped; Get through the clone is
\* answered with it.
C12_Witness ==
    /\ ~original /\ clones > 0
    /\ Len(calls) = 2
    /\ calls[1].via = "original" /\ calls[1].req = Set(World)
    /\ calls[2].via = "clone" /\ calls[2].out = Response(World)

\* C13: a response sent after the caller dropped its future is lost
\* silently: the slot stays empty, the call's state change is in the service
\* state like that of every served call, and the other calls resolve with
\* the responses of the sequential run.
C13_DroppedReceiver ==
    /\ \A c \in CallIds :
        (calls[c].chain = "Dropped" /\ calls[c].stage = "sent") =>
            (calls[c].data = NoRsp /\ calls[c].out = Pending)
    /\ service = SequentialState(None, Served)
    /\ NoFutureFailed =>
        \A c \in CallIds :
            (calls[c].out.tag = "Ok" /\ \E d \in CallIds : calls[d].chain = "Dropped")
                => calls[c].out.rsp = SequentialRsp(None, Enqueued, c)

\* The future of Set was dropped, its response was sent to nobody, the
\* worker runs on and Get is answered with the value Set stored.
C13_Witness ==
    /\ Len(calls) = 2
    /\ calls[1].chain = "Dropped" /\ calls[1].stage = "sent" /\ calls[1].req = Set(World)
    /\ calls[2].out = Response(World)
    /\ worker = "running"

\* C14: a call that was pushed does not wait forever: its future resolves
\* (unless the caller drops it), with Canceled when its tx was dropped
\* without a value and with the response when the response was sent.
C14_NoCallWaitsForever ==
    /\ \A c \in 1 .. MaxCalls :
        (c \in CallIds /\ calls[c].stage # "unsent")
            ~> (c \in CallIds /\ calls[c].chain \in {"Done", "Dropped"})
    /\ [](\A c \in CallIds :
            /\ (calls[c].chain = "Done" /\ calls[c].stage = "dropped") => calls[c].out = Canceled
            /\ (calls[c].chain = "Done" /\ calls[c].stage = "sent")
                    => calls[c].out = Response(calls[c].fut.rsp))

\* One call was cancelled because the worker task was destroyed while it
\* was queued, one was answered; both futures resolved.
C14_Witness ==
    /\ worker = "dead"
    /\ \E c \in CallIds : calls[c].fut = NoFut /\ calls[c].stage = "dropped" /\ calls[c].out = Canceled
    /\ \E c \in CallIds : calls[c].fut.res = "ok" /\ calls[c].out = Response(calls[c].fut.rsp)

\* C15: service futures in flight do not block the worker: whenever it is
\* running, not inside service.call and the queue is not empty, it can
\* receive the next call.
C15_SlowCallDoesNotBlock ==
    (worker = "running" /\ Calling = {} /\ queue # <<>>) => ENABLED WorkerRecv

\* The second call has resolved with its response while the future of the
\* first is still in flight and its caller still waits.
C15_Witness ==
    /\ Len(calls) = 2
    /\ calls[1].stage = "inflight" /\ calls[1].out = Pending /\ RxAlive(calls[1])
    /\ calls[2].out.tag = "Ok"

\* C16: a call that resolved with a response resolved with the value its
\* own service future produced.
C16_Correlation ==
    \A c \in CallIds :
        calls[c].out.tag = "Ok" =>
            (calls[c].fut.res = "ok" /\ calls[c].out.rsp = calls[c].fut.rsp)

\* Two calls whose futures produced different values, each resolved with
\* its own.
C16_Witness ==
    /\ Len(calls) = 2
    /\ calls[1].fut.rsp # calls[2].fut.rsp
    /\ calls[1].out = Response(calls[1].fut.rsp)
    /\ calls[2].out = Response(calls[2].fut.rsp)

NoDuplicates(q) == \A i, j \in 1 .. Len(q) : q[i] = q[j] => i = j

\* C17: a Call is in the queue exactly while it waits, is received at most
\* once and then no longer queued, service.call is entered for it at most
\* once, and its slot holds a value only after the one send of its response.
C17_ConsumedOnce ==
    /\ NoDuplicates(queue)
    /\ NoDuplicates(invoked)
    /\ Range(queue) \cap Range(invoked) = {}
    /\ \A c \in CallIds :
        /\ calls[c].stage = "queued" <=> c \in Range(queue)
        /\ calls[c].stage \in {"calling", "inflight", "sent"} => c \in Range(invoked)
        /\ calls[c].fut # NoFut => c \in Range(invoked)
        /\ calls[c].data # NoRsp => (calls[c].stage = "sent" /\ calls[c].data = calls[c].fut.rsp)

\* Both calls were received, served and answered, once each.
C17_Witness ==
    /\ invoked = <<1, 2>>
    /\ queue = <<>>
    /\ \A c \in CallIds : calls[c].stage = "sent"

\* C18: the push happens inside Handle::call: a call that was not refused is
\* in the queue from its creation until the worker receives it, whether or
\* not its future was ever polled, and the service is invoked in the order
\* of the Handle::call invocations.
C18_EagerEnqueue ==
    /\ \A c \in CallIds :
        calls[c].stage # "unsent" =>
            \/ c \in Range(queue)
            \/ c \in Range(invoked)
            \/ calls[c].stage = "dropped" /\ worker = "dead"
    /\ \A i, j \in 1 .. Len(invoked) : i < j => invoked[i] < invoked[j]

\* A call was served and answered while its future was never polled.
C18_Witness ==
    \E c \in CallIds :
        calls[c].chain = "First" /\ calls[c].stage = "sent" /\ calls[c].data # NoRsp

\* C19: the step in which a service future fails changes that call only:
\* the worker, the queue, the service and every other call are as before.
\* A call is cancelled only by the drop of its own tx, which without a
\* service future of its own happens only when the worker task is
\* destroyed, and a push is refused only then.
C19_FailureIsLocal ==
    /\ [][\A c \in CallIds :
            (calls[c].fut.res # "err" /\ calls'[c].fut.res = "err")
            => /\ worker' = worker
               /\ queue' = queue
               /\ service' = service
               /\ \A d \in CallIds \ {c} : calls'[d] = calls[d]]_vars
    /\ [](\A d \in CallIds :
            /\ calls[d].out = Canceled =>
                (calls[d].stage = "dropped" /\ (calls[d].fut = NoFut => worker = "dead"))
            /\ calls[d].out.tag = "SendError" => worker = "dead")

\* The first call failed and resolved with Canceled; the worker went on and
\* the second call resolved with its response.
C19_Witness ==
    /\ Len(calls) = 2
    /\ calls[1].fut.res = "err" /\ calls[1].out = Canceled
    /\ calls[2].out.tag = "Ok"
    /\ worker = "running"

\* C20: the worker exits only when no Handle is left, and a push fails only
\* after the worker task was destroyed: no call resolves with SendError
\* while the worker runs or after it exited by itself.
C20_SendErrorOnlyAfterForcedEnd ==
    /\ worker = "exited" => Senders = 0
    /\ \A c \in CallIds :
        (calls[c].stage = "unsent" \/ calls[c].out.tag = "SendError") => worker = "dead"

\* A live Handle outlived the destroyed worker: the call through it
\* resolved with SendError.
C20_Witness ==
    /\ worker = "dead"
    /\ Senders > 0
    /\ \E c \in CallIds : calls[c].out.tag = "SendError" /\ HandleAlive(calls[c].via)

====
